---- MODULE Spec2Model ----
(***************************************************************************)
(* Structural statistics of a hierarchical optimisation model              *)
(* (idaes/core/util/model_statistics.py).                                  *)
(*                                                                         *)
(* The state is the model being analysed: a tree of blocks, each owning    *)
(* variables, references to variables, constraints, objectives and         *)
(* external grey-box blocks.  The actions are the edits the model builder  *)
(* applies to it (activate / deactivate, fix / unfix, drop a bound, delete *)
(* a grey box).  The queries of model_statistics.py are operators over a   *)
(* block of the model: a generator is the sequence it yields, a            *)
(* ComponentSet is the set of the elements of that sequence.               *)
(***************************************************************************)
EXTENDS Integers, Sequences, FiniteSets, TLC

\* ------------------------------------------------------------------------
\* Bounds of the explored models
NumOutputs == 2
MaxNEq == 3
MaxEdits == 2

\* Block 0 is the root handed to the queries.
SubBlocks == {1, 2}
Blocks == {0} \cup SubBlocks
Cons == {1, 2}
Objs == {1}
GreyBoxes == {1}
Exprs == {1}

\* A bound of a constraint is None or a number.
None == [some |-> FALSE, val |-> 0]
Some(x) == [some |-> TRUE, val |-> x]

\* What evaluating an expression gives: a number, or a raised exception.
Evaluates(x) == [exc |-> "none", val |-> x]
Raises(e) == [exc |-> e, val |-> 0]

\* The exceptions an evaluation can raise: a variable without a value or a
\* math domain error (ValueError), an operand of the wrong type (TypeError), a
\* missing attribute (AttributeError), a division by zero and an overflow
\* (ZeroDivisionError and OverflowError, both ArithmeticError).
Exceptions == {"AttributeError", "TypeError", "ValueError", "ZeroDivisionError", "OverflowError"}

\* Variables are identified by <<kind, owner, index>>: the Var owned by a
\* block, and the input and output Vars held by a grey box.
BlockVar(b) == <<"var", b, 1>>
InVar(g) == <<"in", g, 1>>
OutVar(g, i) == <<"out", g, i>>
BlockVars == {BlockVar(b) : b \in SubBlocks}
GreyBoxVars == {InVar(g) : g \in GreyBoxes} \cup {OutVar(g, i) : g \in GreyBoxes, i \in 1..NumOutputs}
AllVars == BlockVars \cup GreyBoxVars

\* The callers of the queries.
Procs == {1, 2}

VARIABLES
    parent,     \* parent[b]: the block that owns sub-block b
    bactive,    \* bactive[b]: the active flag of block b
    cons,       \* cons[c]: owner block, active flag, lower, upper, variables of the body
    objs,       \* objs[o]: owner block, active flag
    gbox,       \* gbox[g]: owner block, active flag, n_equality_constraints, present
    vfixed,     \* vfixed[v]: the fixed flag of variable v
    refs,       \* refs[b]: the variables block b holds a Reference to, in order
    bodyval,    \* bodyval[c]: what evaluating c.body() gives, a number or a raised exception
    value,      \* value[v]: the value of variable v, None or a number
    lb,         \* lb[v]: the lower bound of variable v, None or a number
    ub,         \* ub[v]: the upper bound of variable v, None or a number
    edits,      \* number of edits applied since construction
    calls       \* calls[p]: the query caller p runs or has run, and how far it is

\* No caller has asked anything yet.
NoCalls ==
    calls = [p \in Procs |-> [q |-> "none", st |-> "idle", pos |-> 0, loop |-> {},
                              snap |-> {}, mixed |-> FALSE]]

\* The numeric data of the model; the structural edits leave it alone.
numerics == <<bodyval, value, lb, ub>>

vars == <<parent, bactive, cons, objs, gbox, vfixed, refs, bodyval, value, lb, ub, edits, calls>>

\* ------------------------------------------------------------------------
\* Sequence helpers
RECURSIVE Flatten(_)
Flatten(ss) == IF ss = <<>> THEN <<>> ELSE Head(ss) \o Flatten(Tail(ss))

RECURSIVE SortedSeq(_)
SortedSeq(S) ==
    IF S = {} THEN <<>>
    ELSE LET m == CHOOSE x \in S : \A y \in S : x <= y
         IN <<m>> \o SortedSeq(S \ {m})

Range(s) == {s[i] : i \in 1..Len(s)}

\* Iteration over a ComponentSet: its elements in some fixed order.
RECURSIVE SetToSeq(_)
SetToSeq(S) ==
    IF S = {} THEN <<>>
    ELSE LET x == CHOOSE y \in S : TRUE
         IN <<x>> \o SetToSeq(S \ {x})

\* ------------------------------------------------------------------------
\* A block handed to a query is the pair of the model it lives in and its
\* number: [m |-> model, id |-> block].  The model m is the record of the
\* state variables (Model below).

\* The components in declaration order.
SubBlockSeq == SortedSeq(SubBlocks)
ConsSeq == SortedSeq(Cons)
ObjSeq == SortedSeq(Objs)
GreyBoxSeq == SortedSeq(GreyBoxes)

\* Expression e is declared on sub-block e + 1.
ExprOwner(e) == e + 1

\* The components of one ctype declared directly on block b of m, in
\* declaration order.
LocalComponents(m, b, ctype) ==
    CASE ctype = "Block" -> SelectSeq(SubBlockSeq, LAMBDA s : m.parent[s] = b)
      [] ctype = "Constraint" -> SelectSeq(ConsSeq, LAMBDA c : m.cons[c].owner = b)
      [] ctype = "Objective" -> SelectSeq(ObjSeq, LAMBDA o : m.objs[o].owner = b)
      [] ctype = "ExternalGreyBoxBlock" ->
            SelectSeq(GreyBoxSeq, LAMBDA g : m.gbox[g].present /\ m.gbox[g].owner = b)
      [] ctype = "Var" -> (IF b \in SubBlocks THEN <<BlockVar(b)>> ELSE <<>>) \o m.refs[b]
      [] ctype = "Expression" -> SelectSeq(SortedSeq(Exprs), LAMBDA e : ExprOwner(e) = b)

\* The active flag of a component; a Var or an Expression has none and reads
\* as active.
IsActive(m, ctype, x) ==
    CASE ctype = "Block" -> m.bactive[x]
      [] ctype = "Constraint" -> m.cons[x].active
      [] ctype = "Objective" -> m.objs[x].active
      [] ctype = "ExternalGreyBoxBlock" -> m.gbox[x].active
      [] ctype = "Var" -> TRUE
      [] ctype = "Expression" -> TRUE

\* active is "None" (no filter) or "True" (active components only).
ActiveMatches(m, ctype, x, active) == active = "None" \/ IsActive(m, ctype, x)

\* pyomo's block_data_objects: b itself, then the sub-blocks in prefix order;
\* with active = "True" nothing at all when b is inactive, and inactive
\* sub-blocks are not entered.  Grey-box blocks are no Blocks and are never
\* entered.
RECURSIVE block_data_objects(_, _, _, _)
block_data_objects(m, b, active, descend_into) ==
    IF ~ActiveMatches(m, "Block", b, active) THEN <<>>
    ELSE IF ~descend_into THEN <<b>>
    ELSE LET kids == SelectSeq(LocalComponents(m, b, "Block"),
                               LAMBDA s : ActiveMatches(m, "Block", s, active))
         IN <<b>> \o Flatten([i \in 1..Len(kids) |->
                                 block_data_objects(m, kids[i], active, descend_into)])

\* pyomo's component_data_objects on block b of m.
component_data_objects(m, b, ctype, active, descend_into) ==
    LET blks == block_data_objects(m, b, active, descend_into)
    IN Flatten([i \in 1..Len(blks) |->
                   SelectSeq(LocalComponents(m, blks[i], ctype),
                             LAMBDA x : ActiveMatches(m, ctype, x, active))])

\* An indexed block is a block record with one more field, values: its
\* elements in index order.
is_indexed(block) == "values" \in DOMAIN block

\* Mutant: of an indexed block only the first element is iterated.
_iter_indexed_block_data_objects_Mut(block, ctype, active, descend_into) ==
    IF is_indexed(block)
    THEN IF block.values = <<>> THEN <<>>
         ELSE component_data_objects(block.m, Head(block.values), ctype, active, descend_into)
    ELSE component_data_objects(block.m, block.id, ctype, active, descend_into)

\* An indexed block has no component_data_objects: its elements are
\* iterated, one walk each.
_iter_indexed_block_data_objects(block, ctype, active, descend_into) ==
    IF is_indexed(block)
    THEN Flatten([i \in 1..Len(block.values) |->
                     component_data_objects(block.m, block.values[i], ctype, active,
                                            descend_into)])
    ELSE component_data_objects(block.m, block.id, ctype, active, descend_into)

\* Mutant: the components of every sub-block, active or not.
activated_block_component_generator_Mut(block, ctype) ==
    LET subs == _iter_indexed_block_data_objects(block, "Block", "None", TRUE)
    IN _iter_indexed_block_data_objects(block, ctype, "None", FALSE)
       \o Flatten([i \in 1..Len(subs) |->
                      component_data_objects(block.m, subs[i], ctype, "None", FALSE)])

activated_block_component_generator(block, ctype) ==
    LET subs == _iter_indexed_block_data_objects(block, "Block", "True", TRUE)
    IN _iter_indexed_block_data_objects(block, ctype, "None", FALSE)
       \o Flatten([i \in 1..Len(subs) |->
                      component_data_objects(block.m, subs[i], ctype, "None", FALSE)])

\* ------------------------------------------------------------------------
\* Block methods
total_blocks_set(block) ==
    Range(_iter_indexed_block_data_objects(block, "Block", "None", TRUE)) \cup {block.id}

number_total_blocks(block) ==
    Len(_iter_indexed_block_data_objects(block, "Block", "None", TRUE)) + 1

\* Mutant: the root is added without looking at its active flag.
activated_blocks_set_Mut(block) ==
    {block.id} \cup Range(_iter_indexed_block_data_objects(block, "Block", "True", TRUE))

activated_blocks_set(block) ==
    IF block.m.bactive[block.id]
    THEN {block.id}
         \cup Range(_iter_indexed_block_data_objects(block, "Block", "True", TRUE))
    ELSE {}

number_activated_blocks(block) ==
    IF block.m.bactive[block.id]
    THEN 1 + Len(_iter_indexed_block_data_objects(block, "Block", "True", TRUE))
    ELSE 0

deactivated_blocks_set(block) == total_blocks_set(block) \ activated_blocks_set(block)

number_deactivated_blocks(block) == number_total_blocks(block) - number_activated_blocks(block)

\* ------------------------------------------------------------------------
\* Grey-box blocks
inputs(m, g) == {InVar(g)}
outputs(m, g) == {OutVar(g, i) : i \in 1..m.gbox[g].nout}
n_equality_constraints(m, g) == m.gbox[g].n_eq

greybox_block_set(block) ==
    Range(activated_block_component_generator(block, "ExternalGreyBoxBlock"))

activated_greybox_block_set(block) ==
    {g \in greybox_block_set(block) : block.m.gbox[g].active}

deactivated_greybox_block_set(block) ==
    greybox_block_set(block) \ activated_greybox_block_set(block)

number_deactivated_greybox_block(block) == Cardinality(deactivated_greybox_block_set(block))
number_greybox_blocks(block) == Cardinality(greybox_block_set(block))
number_activated_greybox_blocks(block) == Cardinality(activated_greybox_block_set(block))

\* Mutant: only the outputs are counted.
RECURSIVE GreyBoxEqualities_Mut(_, _)
GreyBoxEqualities_Mut(m, gs) ==
    IF gs = <<>> THEN 0
    ELSE Cardinality(outputs(m, Head(gs))) + GreyBoxEqualities_Mut(m, Tail(gs))

\* The loop "equalities += len(grey_box.outputs); equalities +=
\* grey_box.get_external_model().n_equality_constraints()" over grey boxes gs.
RECURSIVE GreyBoxEqualities(_, _)
GreyBoxEqualities(m, gs) ==
    IF gs = <<>> THEN 0
    ELSE Cardinality(outputs(m, Head(gs))) + n_equality_constraints(m, Head(gs))
         + GreyBoxEqualities(m, Tail(gs))

number_activated_greybox_equalities(block) ==
    GreyBoxEqualities(block.m, SetToSeq(activated_greybox_block_set(block)))

number_deactivated_greybox_equalities(block) ==
    GreyBoxEqualities(block.m, SetToSeq(deactivated_greybox_block_set(block)))

\* Mutant: the variables of every grey box, activated or not.
greybox_variables_Mut(block) ==
    UNION {inputs(block.m, g) \cup outputs(block.m, g) : g \in greybox_block_set(block)}

greybox_variables(block) ==
    UNION {inputs(block.m, g) \cup outputs(block.m, g) :
              g \in activated_greybox_block_set(block)}

\* ------------------------------------------------------------------------
\* Basic Constraint methods
total_constraints_set(block) ==
    Range(activated_block_component_generator(block, "Constraint"))

number_total_constraints(block) ==
    Len(activated_block_component_generator(block, "Constraint"))
    + number_activated_greybox_equalities(block)

\* Mutant: the activated constraints are taken from the active-only walk,
\* as the activated equalities are.
activated_constraints_generator_Mut(block) ==
    _iter_indexed_block_data_objects(block, "Constraint", "True", TRUE)

activated_constraints_generator(block) ==
    SelectSeq(activated_block_component_generator(block, "Constraint"),
              LAMBDA c : block.m.cons[c].active)

activated_constraints_set(block) == Range(activated_constraints_generator(block))

number_activated_constraints(block) == Len(activated_constraints_generator(block))

deactivated_constraints_generator(block) ==
    SelectSeq(activated_block_component_generator(block, "Constraint"),
              LAMBDA c : ~block.m.cons[c].active)

deactivated_constraints_set(block) == Range(deactivated_constraints_generator(block))

number_deactivated_constraints(block) ==
    Len(deactivated_constraints_generator(block))
    + number_deactivated_greybox_equalities(block)

\* ------------------------------------------------------------------------
\* Equality Constraints
\* Mutant: the bounds are compared without the two "is not None" tests.
IsEquality_Mut(m, c) == m.cons[c].upper = m.cons[c].lower

\* "c.upper is not None and c.lower is not None and c.upper == c.lower"
IsEquality(m, c) ==
    /\ m.cons[c].upper.some
    /\ m.cons[c].lower.some
    /\ m.cons[c].upper.val = m.cons[c].lower.val

total_equalities_generator(block) ==
    SelectSeq(activated_block_component_generator(block, "Constraint"),
              LAMBDA c : IsEquality(block.m, c))

total_equalities_set(block) == Range(total_equalities_generator(block))

number_total_equalities(block) ==
    Len(total_equalities_generator(block)) + number_activated_greybox_equalities(block)

activated_equalities_generator(block) ==
    SelectSeq(_iter_indexed_block_data_objects(block, "Constraint", "True", TRUE),
              LAMBDA c : IsEquality(block.m, c))

activated_equalities_set(block) == Range(activated_equalities_generator(block))

number_activated_equalities(block) ==
    Len(activated_equalities_generator(block)) + number_activated_greybox_equalities(block)

deactivated_equalities_generator(block) ==
    SelectSeq(total_equalities_generator(block), LAMBDA c : ~block.m.cons[c].active)

deactivated_equalities_set(block) == Range(deactivated_equalities_generator(block))

number_deactivated_equalities(block) ==
    Len(deactivated_equalities_generator(block)) + number_deactivated_greybox_equalities(block)

\* ------------------------------------------------------------------------
\* Inequality Constraints
\* "c.upper is None or c.lower is None"
IsInequality(m, c) == ~m.cons[c].upper.some \/ ~m.cons[c].lower.some

total_inequalities_generator(block) ==
    SelectSeq(activated_block_component_generator(block, "Constraint"),
              LAMBDA c : IsInequality(block.m, c))

total_inequalities_set(block) == Range(total_inequalities_generator(block))

number_total_inequalities(block) == Len(total_inequalities_generator(block))

activated_inequalities_generator(block) ==
    SelectSeq(_iter_indexed_block_data_objects(block, "Constraint", "True", TRUE),
              LAMBDA c : IsInequality(block.m, c))

activated_inequalities_set(block) == Range(activated_inequalities_generator(block))

number_activated_inequalities(block) == Len(activated_inequalities_generator(block))

deactivated_inequalities_generator(block) ==
    SelectSeq(total_inequalities_generator(block), LAMBDA c : ~block.m.cons[c].active)

deactivated_inequalities_set(block) == Range(deactivated_inequalities_generator(block))

number_deactivated_inequalities(block) == Len(deactivated_inequalities_generator(block))

\* ------------------------------------------------------------------------
\* Objective methods
total_objectives_generator(block) == activated_block_component_generator(block, "Objective")

total_objectives_set(block) == Range(total_objectives_generator(block))

number_total_objectives(block) == Len(total_objectives_generator(block))

activated_objectives_generator(block) ==
    SelectSeq(activated_block_component_generator(block, "Objective"),
              LAMBDA o : block.m.objs[o].active)

activated_objectives_set(block) == Range(activated_objectives_generator(block))

number_activated_objectives(block) == Len(activated_objectives_generator(block))

deactivated_objectives_generator(block) ==
    SelectSeq(activated_block_component_generator(block, "Objective"),
              LAMBDA o : ~block.m.objs[o].active)

deactivated_objectives_set(block) == Range(deactivated_objectives_generator(block))

number_deactivated_objectives(block) == Len(deactivated_objectives_generator(block))

\* ------------------------------------------------------------------------
\* Basic Variable Methods
variables_set(block) ==
    Range(_iter_indexed_block_data_objects(block, "Var", "True", TRUE))
    \cup greybox_variables(block)

\* Mutant: the walk and the grey-box variables are counted separately.
number_variables_Mut(block) ==
    Len(_iter_indexed_block_data_objects(block, "Var", "True", TRUE))
    + Cardinality(greybox_variables(block))

number_variables(block) == Cardinality(variables_set(block))

fixed_variables_generator(block) ==
    SelectSeq(_iter_indexed_block_data_objects(block, "Var", "True", TRUE),
              LAMBDA v : block.m.vfixed[v])
    \o SelectSeq(SetToSeq(greybox_variables(block)), LAMBDA v : block.m.vfixed[v])

fixed_variables_set(block) == Range(fixed_variables_generator(block))

number_fixed_variables(block) == Cardinality(fixed_variables_set(block))

unfixed_variables_generator(block) ==
    SelectSeq(_iter_indexed_block_data_objects(block, "Var", "True", TRUE),
              LAMBDA v : ~block.m.vfixed[v])

unfixed_variables_set(block) == Range(unfixed_variables_generator(block))

number_unfixed_variables(block) == Cardinality(unfixed_variables_set(block))

\* ------------------------------------------------------------------------
\* Variables near bounds.  Variable values, bounds and abs_tol are integers in
\* one unit (1e-4 in the explored models); rel_tol is an integer number of
\* 1 / RelTolUnit, so "max(abs_tol, mag * rel_tol)" and the distances it is
\* compared with are held multiplied by RelTolUnit.
RelTolUnit == 10000

Abs(x) == IF x < 0 THEN -x ELSE x

\* Mutant: with both bounds the magnitude is |upper|, not upper - lower.
NearBound_MutMag(m, v, skip_lb, skip_ub, abs_tol, rel_tol) ==
    LET val == m.value[v]
        vub == m.ub[v]
        vlb == m.lb[v]
    IN IF ~val.some THEN [exc |-> "none", yield |-> FALSE]
       ELSE LET mag == IF vub.some THEN Abs(vub.val)
                       ELSE IF vlb.some THEN Abs(vlb.val)
                       ELSE 0
                a == abs_tol * RelTolUnit
                r == mag * rel_tol
                tol == IF a >= r THEN a ELSE r
            IN [exc |-> "none",
                yield |-> IF vub.some /\ ~skip_ub /\ (vub.val - val.val) * RelTolUnit <= tol
                          THEN TRUE
                          ELSE vlb.some /\ ~skip_lb /\ (val.val - vlb.val) * RelTolUnit <= tol]

\* Mutant: no "if v.value is None: continue"; the first distance taken from
\* a None value is a TypeError.
NearBound_MutNone(m, v, skip_lb, skip_ub, abs_tol, rel_tol) ==
    LET val == m.value[v]
        vub == m.ub[v]
        vlb == m.lb[v]
        mag == IF vub.some /\ vlb.some THEN vub.val - vlb.val
               ELSE IF vub.some THEN Abs(vub.val)
               ELSE IF vlb.some THEN Abs(vlb.val)
               ELSE 0
        a == abs_tol * RelTolUnit
        r == mag * rel_tol
        tol == IF a >= r THEN a ELSE r
    IN IF ~val.some /\ ((vub.some /\ ~skip_ub) \/ (vlb.some /\ ~skip_lb))
       THEN [exc |-> "TypeError", yield |-> FALSE]
       ELSE [exc |-> "none",
             yield |-> IF vub.some /\ ~skip_ub /\ (vub.val - val.val) * RelTolUnit <= tol
                       THEN TRUE
                       ELSE vlb.some /\ ~skip_lb /\ (val.val - vlb.val) * RelTolUnit <= tol]

\* The body of the loop for variable v: whether v is yielded (and the
\* exception raised, none in this code).
NearBound(m, v, skip_lb, skip_ub, abs_tol, rel_tol) ==
    LET val == m.value[v]
        vub == m.ub[v]
        vlb == m.lb[v]
    IN IF ~val.some THEN [exc |-> "none", yield |-> FALSE]
       ELSE LET mag == IF vub.some /\ vlb.some THEN vub.val - vlb.val
                       ELSE IF vub.some THEN Abs(vub.val)
                       ELSE IF vlb.some THEN Abs(vlb.val)
                       ELSE 0
                a == abs_tol * RelTolUnit
                r == mag * rel_tol
                tol == IF a >= r THEN a ELSE r
            IN [exc |-> "none",
                yield |-> IF vub.some /\ ~skip_ub /\ (vub.val - val.val) * RelTolUnit <= tol
                          THEN TRUE
                          ELSE vlb.some /\ ~skip_lb /\ (val.val - vlb.val) * RelTolUnit <= tol]

RECURSIVE NearBoundsLoop(_, _, _, _, _, _, _)
NearBoundsLoop(m, vs, skip_lb, skip_ub, abs_tol, rel_tol, acc) ==
    IF vs = <<>> THEN [raised |-> "none", ret |-> acc]
    ELSE LET t == NearBound(m, Head(vs), skip_lb, skip_ub, abs_tol, rel_tol)
         IN IF t.exc # "none" THEN [raised |-> t.exc, ret |-> <<>>]
            ELSE NearBoundsLoop(m, Tail(vs), skip_lb, skip_ub, abs_tol, rel_tol,
                                IF t.yield THEN Append(acc, Head(vs)) ELSE acc)

\* Mutant: the deprecated tol replaces abs_tol only.
DeprecatedArguments_Mut(tol, relative, abs_tol, rel_tol) ==
    [warnings |-> (IF relative.some THEN <<"relative">> ELSE <<>>)
                  \o (IF tol.some THEN <<"tol">> ELSE <<>>),
     abs_tol |-> IF tol.some THEN tol.val ELSE abs_tol,
     rel_tol |-> rel_tol]

\* "Check for deprecated arguments": the deprecation warnings logged, and
\* the tolerances the loop then uses.
DeprecatedArguments(tol, relative, abs_tol, rel_tol) ==
    [warnings |-> (IF relative.some THEN <<"relative">> ELSE <<>>)
                  \o (IF tol.some THEN <<"tol">> ELSE <<>>),
     abs_tol |-> IF tol.some THEN tol.val ELSE abs_tol,
     rel_tol |-> IF tol.some THEN tol.val ELSE rel_tol]

\* tol and relative are None or Some(x).
variables_near_bounds_generator(block, tol, relative, skip_lb, skip_ub, abs_tol, rel_tol) ==
    LET d == DeprecatedArguments(tol, relative, abs_tol, rel_tol)
        out == NearBoundsLoop(block.m,
                              _iter_indexed_block_data_objects(block, "Var", "True", TRUE),
                              skip_lb, skip_ub, d.abs_tol, d.rel_tol, <<>>)
    IN [raised |-> out.raised, warnings |-> d.warnings, ret |-> out.ret]

variables_near_bounds_set(block, tol, relative, skip_lb, skip_ub, abs_tol, rel_tol) ==
    LET g == variables_near_bounds_generator(block, tol, relative, skip_lb, skip_ub,
                                             abs_tol, rel_tol)
    IN [raised |-> g.raised, warnings |-> g.warnings, ret |-> Range(g.ret)]

number_variables_near_bounds(block, tol, abs_tol, rel_tol) ==
    LET s == variables_near_bounds_set(block, tol, None, FALSE, FALSE, abs_tol, rel_tol)
    IN [raised |-> s.raised, warnings |-> s.warnings, ret |-> Cardinality(s.ret)]

\* ------------------------------------------------------------------------
\* Variables in Constraints
\* identify_variables(c.body): the variables the body of c mentions.
identify_variables(m, c) == m.cons[c].body

variables_in_activated_constraints_set(block) ==
    UNION {identify_variables(block.m, c) :
              c \in Range(_iter_indexed_block_data_objects(block, "Constraint", "True", TRUE))}
    \cup greybox_variables(block)

number_variables_in_activated_constraints(block) ==
    Cardinality(variables_in_activated_constraints_set(block))

variables_in_activated_equalities_set(block) ==
    UNION {identify_variables(block.m, c) : c \in Range(activated_equalities_generator(block))}
    \cup greybox_variables(block)

number_variables_in_activated_equalities(block) ==
    Cardinality(variables_in_activated_equalities_set(block))

variables_in_activated_inequalities_set(block) ==
    UNION {identify_variables(block.m, c) : c \in Range(activated_inequalities_generator(block))}

unfixed_variables_in_activated_equalities_set(block) ==
    {v \in variables_in_activated_equalities_set(block) : ~block.m.vfixed[v]}

number_unfixed_variables_in_activated_equalities(block) ==
    Cardinality(unfixed_variables_in_activated_equalities_set(block))

\* Mutant: the grey-box variables are not taken as used.
variables_not_in_activated_constraints_set_Mut(block) ==
    {v \in Range(_iter_indexed_block_data_objects(block, "Var", "True", TRUE)) :
        v \notin UNION {identify_variables(block.m, c) :
                           c \in Range(_iter_indexed_block_data_objects(
                                          block, "Constraint", "True", TRUE))}}

variables_not_in_activated_constraints_set(block) ==
    LET active_vars == variables_in_activated_constraints_set(block)
    IN {v \in Range(_iter_indexed_block_data_objects(block, "Var", "True", TRUE)) :
           v \notin active_vars}

number_variables_not_in_activated_constraints(block) ==
    Cardinality(variables_not_in_activated_constraints_set(block))

number_variables_in_activated_inequalities(block) ==
    Cardinality(variables_in_activated_inequalities_set(block))

variables_only_in_inequalities(block) ==
    variables_in_activated_inequalities_set(block)
    \ variables_in_activated_equalities_set(block)

number_variables_only_in_inequalities(block) ==
    Cardinality(variables_only_in_inequalities(block))

fixed_variables_only_in_inequalities(block) ==
    {v \in variables_only_in_inequalities(block) : block.m.vfixed[v]}

number_fixed_variables_only_in_inequalities(block) ==
    Cardinality(fixed_variables_only_in_inequalities(block))

unfixed_greybox_variables(block) == {v \in greybox_variables(block) : ~block.m.vfixed[v]}

number_of_unfixed_greybox_variables(block) == Cardinality(unfixed_greybox_variables(block))

number_of_greybox_variables(block) == Cardinality(greybox_variables(block))

\* ------------------------------------------------------------------------
\* Unused Variables
unused_variables_set(block) ==
    variables_set(block) \ variables_in_activated_constraints_set(block)

number_unused_variables(block) == Cardinality(unused_variables_set(block))

fixed_unused_variables_set(block) == {v \in unused_variables_set(block) : block.m.vfixed[v]}

number_fixed_unused_variables(block) == Cardinality(fixed_unused_variables_set(block))

\* ------------------------------------------------------------------------
\* Other model statistics
\* Mutant: a negative result is clamped to 0.
degrees_of_freedom_Mut(block) ==
    LET d == number_unfixed_variables_in_activated_equalities(block)
             - number_activated_equalities(block)
    IN IF d < 0 THEN 0 ELSE d

degrees_of_freedom(block) ==
    number_unfixed_variables_in_activated_equalities(block)
    - number_activated_equalities(block)

\* v.parent_block(): the block that declares v, a sub-block or a grey box.
parent_block(v) ==
    IF v[1] = "var" THEN [ctype |-> "Block", id |-> v[2]]
    ELSE [ctype |-> "ExternalGreyBoxBlock", id |-> v[2]]

\* block_set holds Blocks only, so the parent of a grey-box variable is
\* never in it.
active_variables_in_deactivated_blocks_set(block) ==
    LET block_set == activated_blocks_set(block)
    IN {v \in variables_in_activated_constraints_set(block) :
           ~(parent_block(v).ctype = "Block" /\ parent_block(v).id \in block_set)}

number_active_variables_in_deactivated_blocks(block) ==
    Cardinality(active_variables_in_deactivated_blocks_set(block))

\* ------------------------------------------------------------------------
\* Large residuals.  Constraint bounds, body values and tol are integers in
\* one unit (1e-5 in the explored models).  A query that can raise returns
\* [raised |-> "none" or the exception, ret |-> the value returned].

\* "except (AttributeError, TypeError, ValueError)"
Caught == {"AttributeError", "TypeError", "ValueError"}

\* Mutant: r does not start from 0.0, it is the larger of the two raw values.
Residual_Mut(m, c) ==
    LET lower == m.cons[c].lower
        upper == m.cons[c].upper
        body == m.bodyval[c]
    IN IF (lower.some \/ upper.some) /\ body.exc # "none"
       THEN Raises(body.exc)
       ELSE LET r_lower == IF ~lower.some THEN 0 ELSE lower.val - body.val
                r_upper == IF ~upper.some THEN 0 ELSE body.val - upper.val
            IN Evaluates(IF r_upper > r_lower THEN r_upper ELSE r_lower)

\* The try block for constraint c: the exception raised in it, or the
\* residual r.  c.body() is evaluated only next to a bound that is set.
Residual(m, c) ==
    LET lower == m.cons[c].lower
        upper == m.cons[c].upper
        body == m.bodyval[c]
    IN IF (lower.some \/ upper.some) /\ body.exc # "none"
       THEN Raises(body.exc)
       ELSE LET r0 == 0
                r_lower == IF ~lower.some THEN 0 ELSE lower.val - body.val
                r1 == IF r_lower > r0 THEN r_lower ELSE r0
                r_upper == IF ~upper.some THEN 0 ELSE body.val - upper.val
                r2 == IF r_upper > r1 THEN r_upper ELSE r1
            IN Evaluates(r2)

\* Mutant: a constraint whose evaluation raises is added to the set and left
\* out of the dict.
RECURSIVE LargeResidualsLoop_Mut(_, _, _, _)
LargeResidualsLoop_Mut(m, cs, tol, acc) ==
    IF cs = <<>> THEN acc
    ELSE LET c == Head(cs)
             t == Residual(m, c)
         IN IF t.exc = "none"
            THEN LargeResidualsLoop_Mut(m, Tail(cs), tol,
                    IF t.val > tol
                    THEN [acc EXCEPT !.large_residuals_set = @ \cup {c},
                                     !.residual_values = @ @@ (c :> Some(t.val))]
                    ELSE acc)
            ELSE IF t.exc \in Caught
            THEN LargeResidualsLoop_Mut(m, Tail(cs), tol,
                    [acc EXCEPT !.large_residuals_set = @ \cup {c}])
            ELSE [acc EXCEPT !.raised = t.exc]

\* The loop of large_residuals_set over the constraints cs, from the
\* accumulated set and dict acc; an exception the except clause does not
\* name ends the loop and is raised.
RECURSIVE LargeResidualsLoop(_, _, _, _)
LargeResidualsLoop(m, cs, tol, acc) ==
    IF cs = <<>> THEN acc
    ELSE LET c == Head(cs)
             t == Residual(m, c)
         IN IF t.exc = "none"
            THEN LargeResidualsLoop(m, Tail(cs), tol,
                    IF t.val > tol
                    THEN [acc EXCEPT !.large_residuals_set = @ \cup {c},
                                     !.residual_values = @ @@ (c :> Some(t.val))]
                    ELSE acc)
            ELSE IF t.exc \in Caught
            THEN LargeResidualsLoop(m, Tail(cs), tol,
                    [acc EXCEPT !.large_residuals_set = @ \cup {c},
                                !.residual_values = @ @@ (c :> None)])
            ELSE [acc EXCEPT !.raised = t.exc]

large_residuals_set(block, tol, return_residual_values) ==
    LET out == LargeResidualsLoop(
                   block.m,
                   _iter_indexed_block_data_objects(block, "Constraint", "True", TRUE),
                   tol,
                   [raised |-> "none", large_residuals_set |-> {},
                    residual_values |-> [x \in {} |-> None]])
    IN [raised |-> out.raised,
        ret |-> IF out.raised # "none" THEN {}
                ELSE IF return_residual_values THEN out.residual_values
                ELSE out.large_residuals_set]

\* The loop of number_large_residuals: no try block; for an active c,
\* "c.lower - c.body()" evaluates the body first and then subtracts it from
\* the bound, which is a TypeError when the bound is None; the elif does the
\* same with c.upper.
RECURSIVE NumberLargeResidualsLoop(_, _, _, _)
NumberLargeResidualsLoop(m, cs, tol, lr) ==
    IF cs = <<>> THEN [raised |-> "none", ret |-> lr]
    ELSE LET c == Head(cs)
             lower == m.cons[c].lower
             upper == m.cons[c].upper
             body == m.bodyval[c]
         IN IF ~m.cons[c].active THEN NumberLargeResidualsLoop(m, Tail(cs), tol, lr)
            ELSE IF body.exc # "none" THEN [raised |-> body.exc, ret |-> 0]
            ELSE IF ~lower.some THEN [raised |-> "TypeError", ret |-> 0]
            ELSE IF lower.val - body.val > tol
            THEN NumberLargeResidualsLoop(m, Tail(cs), tol, lr + 1)
            ELSE IF ~upper.some THEN [raised |-> "TypeError", ret |-> 0]
            ELSE IF body.val - upper.val > tol
            THEN NumberLargeResidualsLoop(m, Tail(cs), tol, lr + 1)
            ELSE NumberLargeResidualsLoop(m, Tail(cs), tol, lr)

number_large_residuals(block, tol) ==
    NumberLargeResidualsLoop(
        block.m, _iter_indexed_block_data_objects(block, "Constraint", "True", TRUE), tol, 0)

\* ------------------------------------------------------------------------
\* Expression methods
expressions_set(block) ==
    Range(_iter_indexed_block_data_objects(block, "Expression", "True", TRUE))

number_expressions(block) == Cardinality(expressions_set(block))

\* ------------------------------------------------------------------------
\* Reporting methods.  What report_statistics writes to ostream is the
\* sequence of its writes; a write is the tuple of its fixed text and the
\* numbers formatted into it.
header == <<"========">>
newline == <<"\n">>

\* The writes up to "No. Expressions".
ReportBody(block) ==
    LET \* The root is an unnamed model, a sub-block carries its name.
        name == IF block.id = 0 THEN "unknown" ELSE "b"
        name_str == IF name = "unknown" THEN "" ELSE name
    IN << newline,
          header,
          <<"Model Statistics", name_str>>,
          newline,
          <<"Degrees of Freedom", degrees_of_freedom(block)>>,
          newline,
          <<"Total No. Variables", number_variables(block)>>,
          <<"No. Fixed Variables", number_fixed_variables(block)>>,
          <<"No. Unused Variables", number_unused_variables(block),
            number_fixed_unused_variables(block)>>,
          <<"No. Variables only in Inequalities", number_variables_only_in_inequalities(block),
            number_fixed_variables_only_in_inequalities(block)>>,
          newline,
          <<"Total No. Constraints", number_total_constraints(block)>>,
          <<"No. Equality Constraints", number_total_equalities(block),
            number_deactivated_equalities(block)>>,
          <<"No. Inequality Constraints", number_total_inequalities(block),
            number_deactivated_inequalities(block)>>,
          newline,
          <<"No. Objectives", number_total_objectives(block),
            number_deactivated_objectives(block)>>,
          newline,
          <<"No. Blocks", number_total_blocks(block), number_deactivated_blocks(block)>>,
          <<"No. Expressions", number_expressions(block)>> >>

\* Mutant: the sub-section is written as soon as there is a grey box,
\* activated or not.
GreyBoxSection_Mut(block) ==
    IF number_greybox_blocks(block) # 0
    THEN << <<"No. Activated GreyBox Blocks", number_activated_greybox_blocks(block)>>,
            <<"No. GreyBox Variables", number_of_greybox_variables(block)>>,
            <<"No. Fixed GreyBox Variables",
              number_of_greybox_variables(block) - number_of_unfixed_greybox_variables(block)>>,
            <<"No. GreyBox Equalities", number_activated_greybox_equalities(block)>> >>
    ELSE <<>>

\* "if number_activated_greybox_blocks(block) != 0:" and its four writes.
GreyBoxSection(block) ==
    IF number_activated_greybox_blocks(block) # 0
    THEN << <<"No. Activated GreyBox Blocks", number_activated_greybox_blocks(block)>>,
            <<"No. GreyBox Variables", number_of_greybox_variables(block)>>,
            <<"No. Fixed GreyBox Variables",
              number_of_greybox_variables(block) - number_of_unfixed_greybox_variables(block)>>,
            <<"No. GreyBox Equalities", number_activated_greybox_equalities(block)>> >>
    ELSE <<>>

\* Mutant: the report also writes the number of large residuals, which
\* evaluates the constraints.
report_statistics_Mut(block) ==
    LET n == number_large_residuals(block, 1)
    IN IF n.raised # "none"
       THEN [raised |-> n.raised, written |-> ReportBody(block)]
       ELSE [raised |-> "none",
             written |-> ReportBody(block) \o << <<"No. Large Residuals", n.ret>> >>
                         \o GreyBoxSection(block) \o <<header, newline>>]

\* No query the report calls evaluates a body or reads a value, so none of
\* its writes raises.
report_statistics(block) ==
    [raised |-> "none",
     written |-> ReportBody(block) \o GreyBoxSection(block) \o <<header, newline>>]

\* ------------------------------------------------------------------------
\* The model under analysis: construction and edits

LowerValues == {None, Some(0)}
UpperValues == {None, Some(0), Some(1)}

\* The body a constraint is built with: constraint 1 links the variable of
\* sub-block 1 to the grey-box input, every other constraint mentions the
\* variable of the last sub-block.
BodyOf(c) == IF c = 1 THEN {BlockVar(1), InVar(1)} ELSE {BlockVar(2)}

\* Where the builder declares the components: constraint c on block c - 1
\* or c, the objective on the root or the last sub-block, the grey box
\* anywhere, and a Reference to the grey-box input on sub-block 1 or nowhere.
ConsOwners(c) == {c - 1, c}
ObjOwners == {0, 2}
RefHolders == {1, -1}

\* The numeric data the evaluating queries are explored with.  Constraint
\* bounds and body values are in units of 1e-5: an equality "body == 5" whose
\* body evaluates to 5.00002, 5.0002 or 4.9999, or raises.
EvalLowerValues == {None, Some(500000)}
EvalUpperValues == {None, Some(500000), Some(500004)}
BodyValues ==
    {Evaluates(500002), Evaluates(500020), Evaluates(499990)}
    \cup {Raises(e) : e \in Exceptions}

\* Variable values and bounds are in units of 1e-4: a variable within
\* [0, 10] or [-10, 10] with the value 9.9999, 9.9985 or 0.0005, or none.
VarValues == {None, Some(99999), Some(99985), Some(5)}
LbValues == {None, Some(0), Some(-100000)}
UbValues == {None, Some(100000)}

TypeOK ==
    /\ parent \in [SubBlocks -> Blocks]
    /\ bactive \in [Blocks -> BOOLEAN]
    /\ cons \in [Cons -> [owner : Blocks, active : BOOLEAN,
                          lower : LowerValues \cup EvalLowerValues,
                          upper : UpperValues \cup EvalUpperValues,
                          body : SUBSET AllVars]]
    /\ bodyval \in [Cons -> BodyValues \cup {Evaluates(0)}]
    /\ value \in [AllVars -> VarValues \cup {Some(0)}]
    /\ lb \in [AllVars -> LbValues]
    /\ ub \in [AllVars -> UbValues]
    /\ objs \in [Objs -> [owner : Blocks, active : BOOLEAN]]
    /\ gbox \in [GreyBoxes -> [owner : Blocks, active : BOOLEAN, present : BOOLEAN,
                               n_eq : 0..MaxNEq, nout : 1..NumOutputs]]
    /\ vfixed \in [AllVars -> BOOLEAN]
    /\ refs \in [Blocks -> Seq(AllVars)]
    /\ edits \in 0..MaxEdits
    /\ DOMAIN calls = Procs

\* A freshly built model: every component active, every variable unfixed,
\* every constraint an equality "body == 0".
Init ==
    /\ parent \in {p \in [SubBlocks -> Blocks] : \A b \in SubBlocks : p[b] < b}
    /\ bactive = [b \in Blocks |-> TRUE]
    /\ cons \in {f \in [Cons -> [owner : Blocks, active : {TRUE}, lower : {Some(0)},
                                 upper : {Some(0)}, body : SUBSET AllVars]] :
                    \A c \in Cons : f[c].owner \in ConsOwners(c) /\ f[c].body = BodyOf(c)}
    /\ objs \in [Objs -> [owner : ObjOwners, active : {TRUE}]]
    /\ gbox \in [GreyBoxes -> [owner : Blocks, active : {TRUE}, present : {TRUE},
                               n_eq : {0, MaxNEq}, nout : {NumOutputs}]]
    /\ vfixed = [v \in AllVars |-> FALSE]
    /\ refs \in {[b \in Blocks |-> IF b = h THEN <<InVar(1)>> ELSE <<>>] : h \in RefHolders}
    /\ bodyval = [c \in Cons |-> Evaluates(0)]
    /\ value = [v \in AllVars |-> Some(0)]
    /\ lb = [v \in AllVars |-> None]
    /\ ub = [v \in AllVars |-> None]
    /\ edits = 0
    /\ NoCalls

CanEdit == edits < MaxEdits

\* block.activate() / block.deactivate()
SetBlockActive(b, flag) ==
    /\ CanEdit
    /\ bactive[b] # flag
    /\ bactive' = [bactive EXCEPT ![b] = flag]
    /\ edits' = edits + 1
    /\ UNCHANGED <<parent, cons, objs, gbox, vfixed, refs, numerics, calls>>

\* constraint.activate() / constraint.deactivate()
SetConstraintActive(c, flag) ==
    /\ CanEdit
    /\ cons[c].active # flag
    /\ cons' = [cons EXCEPT ![c].active = flag]
    /\ edits' = edits + 1
    /\ UNCHANGED <<parent, bactive, objs, gbox, vfixed, refs, numerics, calls>>

\* objective.activate() / objective.deactivate()
SetObjectiveActive(o, flag) ==
    /\ CanEdit
    /\ objs[o].active # flag
    /\ objs' = [objs EXCEPT ![o].active = flag]
    /\ edits' = edits + 1
    /\ UNCHANGED <<parent, bactive, cons, gbox, vfixed, refs, numerics, calls>>

\* grey_box.activate() / grey_box.deactivate()
SetGreyBoxActive(g, flag) ==
    /\ CanEdit
    /\ gbox[g].present
    /\ gbox[g].active # flag
    /\ gbox' = [gbox EXCEPT ![g].active = flag]
    /\ edits' = edits + 1
    /\ UNCHANGED <<parent, bactive, cons, objs, vfixed, refs, numerics, calls>>

\* owner.del_component(grey_box): the grey box leaves the model.
DelGreyBox(g) ==
    /\ CanEdit
    /\ gbox[g].present
    /\ gbox' = [gbox EXCEPT ![g].present = FALSE]
    /\ edits' = edits + 1
    /\ UNCHANGED <<parent, bactive, cons, objs, vfixed, refs, numerics, calls>>

\* var.fix() / var.unfix()
SetFixed(v, flag) ==
    /\ CanEdit
    /\ vfixed[v] # flag
    /\ vfixed' = [vfixed EXCEPT ![v] = flag]
    /\ edits' = edits + 1
    /\ UNCHANGED <<parent, bactive, cons, objs, gbox, refs, numerics, calls>>

\* The constraint is given a new lower bound (None drops it).
SetLower(c, b) ==
    /\ CanEdit
    /\ cons[c].lower # b
    /\ cons' = [cons EXCEPT ![c].lower = b]
    /\ edits' = edits + 1
    /\ UNCHANGED <<parent, bactive, objs, gbox, vfixed, refs, numerics, calls>>

\* The constraint is given a new upper bound (None drops it).
SetUpper(c, b) ==
    /\ CanEdit
    /\ cons[c].upper # b
    /\ cons' = [cons EXCEPT ![c].upper = b]
    /\ edits' = edits + 1
    /\ UNCHANGED <<parent, bactive, objs, gbox, vfixed, refs, numerics, calls>>

Next ==
    \/ \E b \in Blocks, flag \in BOOLEAN : SetBlockActive(b, flag)
    \/ \E c \in Cons, flag \in BOOLEAN : SetConstraintActive(c, flag)
    \/ \E o \in Objs, flag \in BOOLEAN : SetObjectiveActive(o, flag)
    \/ \E g \in GreyBoxes, flag \in BOOLEAN : SetGreyBoxActive(g, flag)
    \/ \E g \in GreyBoxes : DelGreyBox(g)
    \/ \E v \in AllVars, flag \in BOOLEAN : SetFixed(v, flag)
    \/ \E c \in Cons, b \in LowerValues : SetLower(c, b)
    \/ \E c \in Cons, b \in UpperValues : SetUpper(c, b)

Spec == Init /\ [][Next]_vars

\* ------------------------------------------------------------------------
\* Models explored for the evaluating queries: the root owns constraint 1 and
\* sub-block 1, which owns the grey box and sub-block 2, which owns
\* constraint 2 and a Reference to the grey-box input.
NestedModel ==
    /\ parent = [b \in SubBlocks |-> b - 1]
    /\ bactive = [b \in Blocks |-> TRUE]
    /\ objs = [o \in Objs |-> [owner |-> 0, active |-> TRUE]]
    /\ gbox = [g \in GreyBoxes |-> [owner |-> 1, active |-> TRUE, present |-> TRUE,
                                     n_eq |-> 0, nout |-> NumOutputs]]
    /\ vfixed = [v \in AllVars |-> FALSE]
    /\ refs = [b \in Blocks |-> IF b = 2 THEN <<InVar(1)>> ELSE <<>>]
    /\ edits = 0
    /\ NoCalls

\* The variables start as "9.9999 within [0, 10]", the constraints as
\* "body == 5" with the body at 5.00002.
InitResiduals ==
    /\ NestedModel
    /\ cons \in {f \in [Cons -> [owner : Blocks, active : {TRUE}, lower : EvalLowerValues,
                                 upper : EvalUpperValues, body : SUBSET AllVars]] :
                    /\ \A c \in Cons : f[c].owner = 2 * (c - 1) /\ f[c].body = BodyOf(c)
                    /\ f[2].lower = Some(500000) /\ f[2].upper = Some(500000)}
    /\ bodyval \in {f \in [Cons -> BodyValues] : f[2] = Evaluates(500002)}
    /\ value \in {f \in [AllVars -> {None, Some(99999)}] :
                     \A v \in AllVars \ {BlockVar(1)} : f[v] = Some(99999)}
    /\ lb = [v \in AllVars |-> Some(0)]
    /\ ub = [v \in AllVars |-> Some(100000)]

InitNearBounds ==
    /\ NestedModel
    /\ cons = [c \in Cons |-> [owner |-> 2 * (c - 1), active |-> TRUE,
                                lower |-> Some(500000), upper |-> Some(500000),
                                body |-> BodyOf(c)]]
    /\ bodyval = [c \in Cons |-> Evaluates(500002)]
    /\ value \in {f \in [AllVars -> VarValues] :
                     \A v \in AllVars \ {BlockVar(1)} : f[v] = Some(99999)}
    /\ lb \in {f \in [AllVars -> LbValues] :
                  \A v \in AllVars \ {BlockVar(1)} : f[v] = Some(0)}
    /\ ub \in {f \in [AllVars -> UbValues] :
                  \A v \in AllVars \ {BlockVar(1)} : f[v] = Some(100000)}

\* The variables of the body change so that c.body() gives o.
SetBodyValue(c, o) ==
    /\ CanEdit
    /\ bodyval[c] # o
    /\ bodyval' = [bodyval EXCEPT ![c] = o]
    /\ edits' = edits + 1
    /\ UNCHANGED <<parent, bactive, cons, objs, gbox, vfixed, refs, value, lb, ub, calls>>

\* var.set_value(x); None takes the value away.
SetValue(v, x) ==
    /\ CanEdit
    /\ value[v] # x
    /\ value' = [value EXCEPT ![v] = x]
    /\ edits' = edits + 1
    /\ UNCHANGED <<parent, bactive, cons, objs, gbox, vfixed, refs, bodyval, lb, ub, calls>>

\* var.setlb(x)
SetLb(v, x) ==
    /\ CanEdit
    /\ lb[v] # x
    /\ lb' = [lb EXCEPT ![v] = x]
    /\ edits' = edits + 1
    /\ UNCHANGED <<parent, bactive, cons, objs, gbox, vfixed, refs, bodyval, value, ub, calls>>

\* var.setub(x)
SetUb(v, x) ==
    /\ CanEdit
    /\ ub[v] # x
    /\ ub' = [ub EXCEPT ![v] = x]
    /\ edits' = edits + 1
    /\ UNCHANGED <<parent, bactive, cons, objs, gbox, vfixed, refs, bodyval, value, lb, calls>>

NextResiduals ==
    \/ \E c \in Cons, o \in BodyValues : SetBodyValue(c, o)
    \/ \E c \in Cons, b \in EvalLowerValues : SetLower(c, b)
    \/ \E c \in Cons, b \in EvalUpperValues : SetUpper(c, b)
    \/ \E c \in Cons, flag \in BOOLEAN : SetConstraintActive(c, flag)
    \/ \E b \in Blocks, flag \in BOOLEAN : SetBlockActive(b, flag)

SpecResiduals == InitResiduals /\ [][NextResiduals]_vars

NextNearBounds ==
    \/ \E v \in AllVars, x \in VarValues : SetValue(v, x)
    \/ \E v \in AllVars, x \in LbValues : SetLb(v, x)
    \/ \E v \in AllVars, x \in UbValues : SetUb(v, x)
    \/ \E b \in Blocks, flag \in BOOLEAN : SetBlockActive(b, flag)

SpecNearBounds == InitNearBounds /\ [][NextNearBounds]_vars

\* The model as one value, and the root block the queries are asked of.
Model == [parent |-> parent, bactive |-> bactive, cons |-> cons, objs |-> objs,
          gbox |-> gbox, vfixed |-> vfixed, refs |-> refs,
          bodyval |-> bodyval, value |-> value, lb |-> lb, ub |-> ub]
root == [m |-> Model, id |-> 0]

\* The sub-blocks declared on the root taken as one indexed block, as if
\* built by "root.b = Block(index_set)": the container has an identity of its
\* own and the sub-blocks are its elements.
indexed_block == [m |-> Model, id |-> -1, values |-> LocalComponents(Model, 0, "Block")]

\* ------------------------------------------------------------------------
\* Callers.  A query is a loop over a generator that walks the model as the
\* loop goes: a caller in a query is at position pos of the walk, with the
\* local variables of the loop in loop; callers take their steps in any
\* order.  calls[p].snap is the model as it was when p called.

\* The queries the callers ask of the root: a classifier, and the two queries
\* that evaluate, with their default tolerances.
QueryNames == {"activated_constraints_set", "large_residuals_set", "variables_near_bounds_set"}

\* The generator the loop of query q iterates.
QueryWalk(q, block) ==
    CASE q = "activated_constraints_set" ->
            activated_block_component_generator(block, "Constraint")
      [] q = "large_residuals_set" ->
            _iter_indexed_block_data_objects(block, "Constraint", "True", TRUE)
      [] q = "variables_near_bounds_set" ->
            _iter_indexed_block_data_objects(block, "Var", "True", TRUE)

\* The local variables of query q before its loop.
QueryStart(q) ==
    CASE q = "activated_constraints_set" -> [raised |-> "none", ret |-> {}]
      [] q = "large_residuals_set" ->
            [raised |-> "none", large_residuals_set |-> {},
             residual_values |-> [x \in {} |-> None]]
      [] q = "variables_near_bounds_set" -> [raised |-> "none", ret |-> <<>>]

\* The body of the loop of query q for the yielded component x, from the
\* local variables l.
QueryBody(q, m, x, l) ==
    CASE q = "activated_constraints_set" ->
            IF m.cons[x].active THEN [l EXCEPT !.ret = @ \cup {x}] ELSE l
      [] q = "large_residuals_set" -> LargeResidualsLoop(m, <<x>>, 1, l)
      [] q = "variables_near_bounds_set" ->
            NearBoundsLoop(m, <<x>>, FALSE, FALSE, 1, 1, l.ret)

\* What query q returns after its loop, or the exception that ended it.
QueryReturn(q, l) ==
    CASE q = "activated_constraints_set" -> l
      [] q = "large_residuals_set" ->
            [raised |-> l.raised,
             ret |-> IF l.raised # "none" THEN {} ELSE l.large_residuals_set]
      [] q = "variables_near_bounds_set" -> [raised |-> l.raised, ret |-> Range(l.ret)]

\* Mutant: the local variables are a default argument, created once: a call
\* of the query a caller asked before goes on from what that call left.
Call_Mut(p, q) ==
    /\ calls[p].st # "running"
    /\ calls' = [calls EXCEPT ![p] =
                    [q |-> q, st |-> "running", pos |-> 1,
                     loop |-> IF calls[p].q = q /\ q = "activated_constraints_set"
                              THEN calls[p].loop ELSE QueryStart(q),
                     snap |-> Model, mixed |-> FALSE]]
    /\ UNCHANGED <<parent, bactive, cons, objs, gbox, vfixed, refs, numerics, edits>>

\* Caller p calls query q on the root: the function creates its local
\* variables and its generator.
Call(p, q) ==
    /\ calls[p].st # "running"
    /\ calls' = [calls EXCEPT ![p] =
                    [q |-> q, st |-> "running", pos |-> 1, loop |-> QueryStart(q),
                     snap |-> Model, mixed |-> FALSE]]
    /\ UNCHANGED <<parent, bactive, cons, objs, gbox, vfixed, refs, numerics, edits>>

\* Mutant: the callers share one generator: a step takes the component after
\* the furthest position any caller of the same query has reached.
Step_Mut(p) ==
    LET c == calls[p]
        walk == QueryWalk(c.q, root)
        others == {o \in Procs : calls[o].st = "running" /\ calls[o].q = c.q}
        at == CHOOSE n \in {calls[o].pos : o \in others \cup {p}} :
                 \A o \in others : calls[o].pos <= n
    IN /\ c.st = "running"
       /\ c.pos <= Len(walk)
       /\ IF at > Len(walk)
          THEN calls' = [calls EXCEPT ![p].pos = at, ![p].mixed = TRUE]
          ELSE LET l == QueryBody(c.q, Model, walk[at], c.loop)
                   mixed == c.mixed \/ \E o \in Procs \ {p} : calls[o].st = "running"
               IN calls' = [calls EXCEPT ![p] =
                               IF l.raised # "none"
                               THEN [c EXCEPT !.st = "returned", !.pos = 0,
                                              !.loop = QueryReturn(c.q, l), !.mixed = mixed]
                               ELSE [c EXCEPT !.pos = at + 1, !.loop = l, !.mixed = mixed]]
       /\ UNCHANGED <<parent, bactive, cons, objs, gbox, vfixed, refs, numerics, edits>>

\* One turn of the loop of caller p: the generator yields the next component
\* of the model as it is now and the body runs for it; an exception the body
\* does not catch ends the call.
Step(p) ==
    LET c == calls[p]
        walk == QueryWalk(c.q, root)
    IN /\ c.st = "running"
       /\ c.pos <= Len(walk)
       /\ LET l == QueryBody(c.q, Model, walk[c.pos], c.loop)
              mixed == c.mixed \/ \E o \in Procs \ {p} : calls[o].st = "running"
          IN calls' = [calls EXCEPT ![p] =
                          IF l.raised # "none"
                          THEN [c EXCEPT !.st = "returned", !.pos = 0,
                                         !.loop = QueryReturn(c.q, l), !.mixed = mixed]
                          ELSE [c EXCEPT !.pos = c.pos + 1, !.loop = l, !.mixed = mixed]]
       /\ UNCHANGED <<parent, bactive, cons, objs, gbox, vfixed, refs, numerics, edits>>

\* The generator of caller p is exhausted: the query returns.
Return(p) ==
    LET c == calls[p]
    IN /\ c.st = "running"
       /\ c.pos > Len(QueryWalk(c.q, root))
       /\ calls' = [calls EXCEPT ![p] =
                       [c EXCEPT !.st = "returned", !.pos = 0, !.loop = QueryReturn(c.q, c.loop)]]
       /\ UNCHANGED <<parent, bactive, cons, objs, gbox, vfixed, refs, numerics, edits>>

\* The models the callers are explored on: constraint 1 is "body == 5" or
\* "body >= 5" with a body that evaluates or raises, the variable of
\* sub-block 1 has a value or none.
InitQueries ==
    /\ InitResiduals
    /\ cons[1].lower # None
    /\ cons[1].upper \in {None, cons[1].lower}
    /\ bodyval[1] \in {Evaluates(500020), Raises("ValueError"), Raises("ZeroDivisionError")}

\* The model is edited only while no caller is in a query.
NextQueries ==
    \/ \E p \in Procs, q \in QueryNames : Call(p, q)
    \/ \E p \in Procs : Step(p)
    \/ \E p \in Procs : Return(p)
    \/ /\ \A p \in Procs : calls[p].st # "running"
       /\ \/ \E b \in Blocks, flag \in BOOLEAN : SetBlockActive(b, flag)
          \/ \E c \in Cons, flag \in BOOLEAN : SetConstraintActive(c, flag)

SpecQueries == InitQueries /\ [][NextQueries]_vars

\* ------------------------------------------------------------------------
\* Properties.  The queries are asked of the root, block 0.

\* Block b and every block above it, the root included, are active.
RECURSIVE OnActivePath(_, _)
OnActivePath(m, b) == m.bactive[b] /\ (b = 0 \/ OnActivePath(m, m.parent[b]))

\* C1: the activated and the deactivated blocks are disjoint and together
\* are the total blocks; the total blocks are the root and every block
\* beneath it whatever the active flags; the root is an activated block
\* only if it is active.
Thm_C1_BlocksPartition ==
    LET t == total_blocks_set(root)
        a == activated_blocks_set(root)
        d == deactivated_blocks_set(root)
    IN /\ a \cap d = {}
       /\ a \cup d = t
       /\ t = Blocks
       /\ 0 \in a => bactive[0]

\* An inactive root above a sub-block whose own flag is active.
Wit_C1_InactiveRoot ==
    /\ ~bactive[0]
    /\ \E b \in SubBlocks : bactive[b] /\ b \in deactivated_blocks_set(root)
    /\ activated_blocks_set(root) = {}

\* C2: the activated and the deactivated equalities (inequalities) are
\* disjoint and together are the total equalities (inequalities), for every
\* root, an inactive root that owns active constraints included.
Claim_C2_EqualitiesPartition ==
    /\ activated_equalities_set(root) \cap deactivated_equalities_set(root) = {}
    /\ activated_equalities_set(root) \cup deactivated_equalities_set(root)
           = total_equalities_set(root)
    /\ activated_inequalities_set(root) \cap deactivated_inequalities_set(root) = {}
    /\ activated_inequalities_set(root) \cup deactivated_inequalities_set(root)
           = total_inequalities_set(root)

\* C3: for constraints, objectives and grey-box blocks the activated and the
\* deactivated sets are disjoint and together are the total set.
Thm_C3_Partition ==
    /\ activated_constraints_set(root) \cap deactivated_constraints_set(root) = {}
    /\ activated_constraints_set(root) \cup deactivated_constraints_set(root)
           = total_constraints_set(root)
    /\ activated_objectives_set(root) \cap deactivated_objectives_set(root) = {}
    /\ activated_objectives_set(root) \cup deactivated_objectives_set(root)
           = total_objectives_set(root)
    /\ activated_greybox_block_set(root) \cap deactivated_greybox_block_set(root) = {}
    /\ activated_greybox_block_set(root) \cup deactivated_greybox_block_set(root)
           = greybox_block_set(root)

\* An inactive root that owns an active constraint, next to a deactivated
\* constraint, objective or grey box.
Wit_C3_InactiveRootOwnsActive ==
    /\ ~bactive[0]
    /\ \E c \in Cons : cons[c].owner = 0 /\ cons[c].active
                       /\ c \in activated_constraints_set(root)
    /\ \/ deactivated_constraints_set(root) # {}
       \/ deactivated_greybox_block_set(root) # {}
       \/ deactivated_objectives_set(root) # {}

\* C4: a constraint the walk yields is an equality iff both bounds are
\* present and equal and an inequality iff a bound is absent (so one without
\* bounds is an inequality and no equality); every member of an activated or
\* deactivated equalities (inequalities) set obeys the same rule; dropping a
\* bound of an equality moves it to the inequalities; and an edit that
\* touches neither the constraints nor the blocks leaves the classification
\* as it was.
BothBoundsEqual(m, c) ==
    /\ m.cons[c].lower # None
    /\ m.cons[c].upper # None
    /\ m.cons[c].lower.val = m.cons[c].upper.val
ABoundAbsent(m, c) == m.cons[c].lower = None \/ m.cons[c].upper = None

C4_Rule(r) ==
    /\ \A c \in total_constraints_set(r) :
          /\ c \in total_equalities_set(r) <=> BothBoundsEqual(r.m, c)
          /\ c \in total_inequalities_set(r) <=> ABoundAbsent(r.m, c)
          /\ (r.m.cons[c].lower = None /\ r.m.cons[c].upper = None) =>
                c \in total_inequalities_set(r) /\ c \notin total_equalities_set(r)
    /\ \A c \in activated_equalities_set(r) \cup deactivated_equalities_set(r) :
          BothBoundsEqual(r.m, c)
    /\ \A c \in activated_inequalities_set(r) \cup deactivated_inequalities_set(r) :
          ABoundAbsent(r.m, c)

C4_DropBound ==
    \A c \in Cons :
        (/\ c \in total_equalities_set(root)
         /\ cons'[c] \in {[cons[c] EXCEPT !.lower = None], [cons[c] EXCEPT !.upper = None]})
        => /\ c \notin total_equalities_set(root')
           /\ c \in total_inequalities_set(root')

C4_Repeat ==
    UNCHANGED <<parent, bactive, cons>> =>
        /\ total_equalities_set(root') = total_equalities_set(root)
        /\ total_inequalities_set(root') = total_inequalities_set(root)
        /\ activated_equalities_set(root') = activated_equalities_set(root)
        /\ activated_inequalities_set(root') = activated_inequalities_set(root)

Thm_C4_Classification ==
    [][C4_Rule(root) /\ C4_Rule(root') /\ C4_DropBound /\ C4_Repeat]_vars

\* A walked constraint that lost both bounds, next to a walked equality.
Wit_C4_NoBounds ==
    /\ edits > 0
    /\ \E c \in total_inequalities_set(root) : cons[c].lower = None /\ cons[c].upper = None
    /\ total_equalities_set(root) # {}

\* The activated ordinary constraints: active, on a block that is active
\* together with every block above it.
ActivatedConstraints(m) ==
    {c \in Cons : m.cons[c].active /\ OnActivePath(m, m.cons[c].owner)}

ActivatedEqualities(m) == {c \in ActivatedConstraints(m) : BothBoundsEqual(m, c)}

\* |outputs| + n_equality_constraints() summed over the grey boxes of S.
RECURSIVE SumGreyBox(_, _)
SumGreyBox(m, S) ==
    IF S = {} THEN 0
    ELSE LET g == CHOOSE x \in S : TRUE
         IN m.gbox[g].nout + m.gbox[g].n_eq + SumGreyBox(m, S \ {g})

\* C5: the degrees of freedom are the number of unfixed variables in the
\* activated equalities, grey-box variables included, minus the number of
\* activated ordinary equalities plus the grey-box equality count; the
\* result is not clamped.
Thm_C5_DegreesOfFreedom ==
    LET eqs == ActivatedEqualities(Model)
        gbv == greybox_variables(root)
        free == {v \in AllVars : /\ ~vfixed[v]
                                 /\ \/ v \in gbv
                                    \/ \E c \in eqs : v \in cons[c].body}
    IN degrees_of_freedom(root)
          = Cardinality(free)
            - (Cardinality(eqs) + SumGreyBox(Model, activated_greybox_block_set(root)))

\* An over-constrained model: more activated equalities than unfixed
\* variables in them.
Wit_C5_OverConstrained ==
    /\ degrees_of_freedom(root) < 0
    /\ ActivatedEqualities(Model) # {}
    /\ activated_greybox_block_set(root) # {}

\* C6: a root that owns nothing but two sub-blocks sharing no variable and
\* no constraint has the sum of their degrees of freedom.
OwnedVars(m, b) ==
    {BlockVar(b)}
    \cup UNION {inputs(m, g) \cup outputs(m, g) :
                   g \in {x \in GreyBoxes : m.gbox[x].present /\ m.gbox[x].owner = b}}

DisjointComposition ==
    /\ \A b \in SubBlocks : parent[b] = 0
    /\ bactive[0]
    /\ \A c \in Cons : cons[c].owner # 0 /\ cons[c].body \subseteq OwnedVars(Model, cons[c].owner)
    /\ \A o \in Objs : objs[o].owner # 0
    /\ \A g \in GreyBoxes : gbox[g].present => gbox[g].owner # 0
    /\ refs[0] = <<>>
    /\ \A b \in SubBlocks : Range(refs[b]) \subseteq OwnedVars(Model, b)

Claim_C6_Additive ==
    DisjointComposition =>
        degrees_of_freedom(root)
            = degrees_of_freedom([m |-> Model, id |-> 1])
              + degrees_of_freedom([m |-> Model, id |-> 2])

\* C7: the activated grey-box equality count is the sum of |outputs| +
\* n_equality_constraints() over the activated grey boxes; the total
\* constraint, total equality and activated equality counts are the ordinary
\* ones plus that amount; and no edit of a grey box changes an inequality
\* count.
C7_Counts(r) ==
    LET g == number_activated_greybox_equalities(r)
    IN /\ g = SumGreyBox(r.m, activated_greybox_block_set(r))
       /\ number_total_constraints(r) = Cardinality(total_constraints_set(r)) + g
       /\ number_total_equalities(r) = Cardinality(total_equalities_set(r)) + g
       /\ number_activated_equalities(r) = Cardinality(activated_equalities_set(r)) + g

C7_Inequalities ==
    gbox' # gbox =>
        /\ number_total_inequalities(root') = number_total_inequalities(root)
        /\ number_activated_inequalities(root') = number_activated_inequalities(root)
        /\ number_deactivated_inequalities(root') = number_deactivated_inequalities(root)

Thm_C7_GreyBoxEqualities ==
    [][C7_Counts(root) /\ C7_Counts(root') /\ C7_Inequalities]_vars

\* An activated grey box with 2 outputs and 3 internal equalities, counted 5,
\* next to an ordinary inequality.
Wit_C7_TwoOutputsThreeEqualities ==
    /\ 1 \in activated_greybox_block_set(root)
    /\ gbox[1].nout = 2 /\ gbox[1].n_eq = 3
    /\ number_activated_greybox_equalities(root) = 5
    /\ number_total_inequalities(root) > 0

\* The variables the activated-mode walk yields: owned by, or referenced
\* from, a block that is active together with every block above it.
WalkVars(m) ==
    {v \in AllVars : \E b \in Blocks :
        OnActivePath(m, b) /\ v \in Range(LocalComponents(m, b, "Var"))}

\* C8: variables_set is the walk's variables together with the grey-box
\* variables; the grey-box variables are the inputs and outputs of the
\* activated grey boxes; a variable found both ways is counted once.
Thm_C8_VariablesSet ==
    LET gbv == greybox_variables(root)
    IN /\ variables_set(root) = WalkVars(Model) \cup gbv
       /\ gbv \subseteq variables_set(root)
       /\ gbv = {v \in GreyBoxVars :
                    /\ v[2] \in activated_greybox_block_set(root)
                    /\ v[1] = "in" \/ v[3] <= gbox[v[2]].nout}
       /\ number_variables(root) = Cardinality(WalkVars(Model) \cup gbv)

\* The grey-box input is found by the walk (through a Reference) and as a
\* grey-box variable.
Wit_C8_FoundBothWays ==
    /\ InVar(1) \in WalkVars(Model)
    /\ InVar(1) \in greybox_variables(root)

\* C9 as stated: deactivating an activated grey box takes its variables out
\* of variables_in_activated_constraints_set and leaves them in
\* variables_set.
Deactivated(g) ==
    /\ g \in activated_greybox_block_set(root)
    /\ gbox'[g] = [gbox[g] EXCEPT !.active = FALSE]

Deleted(g) ==
    /\ g \in activated_greybox_block_set(root)
    /\ gbox'[g] = [gbox[g] EXCEPT !.present = FALSE]

Claim_C9_DeactivatedGreyBox ==
    [][\A g \in GreyBoxes :
          Deactivated(g) =>
              LET io == inputs(Model, g) \cup outputs(Model, g)
              IN /\ io \cap variables_in_activated_constraints_set(root') = {}
                 /\ io \subseteq variables_set(root')]_vars

\* C9 amended: after deactivating (or deleting) an activated grey box, one
\* of its variables is in variables_in_activated_constraints_set iff the
\* body of an activated constraint mentions it, and in variables_set iff the
\* activated-mode walk yields it.
Thm_C9_DeactivatedGreyBox ==
    [][\A g \in GreyBoxes :
          (Deactivated(g) \/ Deleted(g)) =>
              \A v \in inputs(Model, g) \cup outputs(Model, g) :
                  /\ v \in variables_in_activated_constraints_set(root')
                        <=> \E c \in ActivatedConstraints(Model') : v \in cons'[c].body
                  /\ v \in variables_set(root') <=> v \in WalkVars(Model')]_vars

\* A grey box that was deactivated and is still in the model: its outputs
\* are in neither set.
Wit_C9_OutputsGone ==
    /\ bactive[0]
    /\ 1 \in deactivated_greybox_block_set(root)
    /\ OutVar(1, 1) \notin variables_set(root)
    /\ OutVar(1, 1) \notin variables_in_activated_constraints_set(root)

\* C10: the fixed and the unfixed variables are disjoint and together are
\* variables_set, grey-box variables included, so their numbers add up.
Claim_C10_FixedUnfixed ==
    /\ fixed_variables_set(root) \cap unfixed_variables_set(root) = {}
    /\ fixed_variables_set(root) \cup unfixed_variables_set(root) = variables_set(root)
    /\ number_fixed_variables(root) + number_unfixed_variables(root) = number_variables(root)

\* C11: variables_in_activated_constraints_set is the variables in the
\* bodies of the activated constraints together with the grey-box variables;
\* unused_variables_set and variables_not_in_activated_constraints_set are
\* both variables_set minus that set, hence equal; no grey-box variable is
\* unused.
Thm_C11_UnusedVariables ==
    LET used == variables_in_activated_constraints_set(root)
        inbody == UNION {cons[c].body : c \in ActivatedConstraints(Model)}
    IN /\ used = inbody \cup greybox_variables(root)
       /\ unused_variables_set(root) = variables_set(root) \ used
       /\ variables_not_in_activated_constraints_set(root) = variables_set(root) \ used
       /\ unused_variables_set(root) = variables_not_in_activated_constraints_set(root)
       /\ greybox_variables(root) \cap unused_variables_set(root) = {}

\* A grey-box input that the walk yields too (through a Reference) and that
\* no activated constraint mentions, next to an unused variable.
Wit_C11_GreyBoxInputUsed ==
    /\ InVar(1) \in WalkVars(Model)
    /\ InVar(1) \in greybox_variables(root)
    /\ \A c \in ActivatedConstraints(Model) : InVar(1) \notin cons[c].body
    /\ unused_variables_set(root) # {}

\* The tolerances large_residuals_set and number_large_residuals are asked
\* with, in units of 1e-5: 1e-5 (the default), 1e-4 and a negative one.
Tols == {-1, 1, 10}

\* The larger of the two raw values, a missing bound giving 0 for its side.
RawResidual(m, c) ==
    LET below == IF m.cons[c].lower.some THEN m.cons[c].lower.val - m.bodyval[c].val ELSE 0
        above == IF m.cons[c].upper.some THEN m.bodyval[c].val - m.cons[c].upper.val ELSE 0
    IN IF below >= above THEN below ELSE above

\* The same, floored at 0.
FlooredResidual(m, c) == IF RawResidual(m, c) >= 0 THEN RawResidual(m, c) ELSE 0

Faults(m, c) ==
    /\ m.cons[c].lower.some \/ m.cons[c].upper.some
    /\ m.bodyval[c].exc # "none"

\* C13: whatever exception evaluating a constraint raises, large_residuals_set
\* returns; the faulting constraint is in the result for every tol, with None
\* as its value in the dict; the other constraints are classified as usual.
Claim_C13_FaultsAreFlagged ==
    \A tol \in Tols :
        LET s == large_residuals_set(root, tol, FALSE)
            d == large_residuals_set(root, tol, TRUE)
        IN /\ s.raised = "none"
           /\ d.raised = "none"
           /\ \A c \in ActivatedConstraints(Model) :
                 IF Faults(Model, c)
                 THEN c \in s.ret /\ c \in DOMAIN d.ret /\ d.ret[c] = None
                 ELSE c \in s.ret <=> FlooredResidual(Model, c) > tol

\* C14: whenever large_residuals_set returns, number_large_residuals returns
\* the number of constraints in it, for every tolerance, also when an
\* activated constraint has one bound, no bound or a body that cannot be
\* evaluated.
Claim_C14_NumberIsCardinality ==
    \A tol \in Tols :
        LET s == large_residuals_set(root, tol, FALSE)
            n == number_large_residuals(root, tol)
        IN s.raised = "none" => n.raised = "none" /\ n.ret = Cardinality(s.ret)

\* The tolerances the near-bound queries are asked with: abs_tol in units of
\* 1e-4 (1e-4, the default, and 2e-3), rel_tol in units of 1 / RelTolUnit (0
\* and 1e-4, the default), and the deprecated tol (None, 1e-4, 2e-3).
AbsTols == {1, 20}
RelTols == {0, 1}
DeprecatedTols == {None, Some(1), Some(20)}

\* upper - lower with both bounds, |upper| or |lower| with one, 0 with none.
Magnitude(m, v) ==
    CASE m.ub[v].some /\ m.lb[v].some -> m.ub[v].val - m.lb[v].val
      [] m.ub[v].some /\ ~m.lb[v].some -> Abs(m.ub[v].val)
      [] ~m.ub[v].some /\ m.lb[v].some -> Abs(m.lb[v].val)
      [] OTHER -> 0

\* T = max(abs_tol, magnitude * rel_tol), times RelTolUnit.
EffectiveTolerance(m, v, abs_tol, rel_tol) ==
    LET a == abs_tol * RelTolUnit
        r == Magnitude(m, v) * rel_tol
    IN IF a >= r THEN a ELSE r

Qualifies(m, v, skip_lb, skip_ub, abs_tol, rel_tol) ==
    \/ /\ m.ub[v].some /\ ~skip_ub
       /\ (m.ub[v].val - m.value[v].val) * RelTolUnit
             <= EffectiveTolerance(m, v, abs_tol, rel_tol)
    \/ /\ m.lb[v].some /\ ~skip_lb
       /\ (m.value[v].val - m.lb[v].val) * RelTolUnit
             <= EffectiveTolerance(m, v, abs_tol, rel_tol)

\* C15: variables_near_bounds_set holds exactly the variables of the
\* activated-mode walk that have a value and are within T of an upper bound
\* that is present and not skipped or of a lower bound that is present and
\* not skipped.
Thm_C15_NearBounds ==
    \A skip_lb \in BOOLEAN, skip_ub \in BOOLEAN, abs_tol \in AbsTols, rel_tol \in RelTols :
        variables_near_bounds_set(root, None, None, skip_lb, skip_ub, abs_tol, rel_tol).ret
            = {v \in WalkVars(Model) :
                  value[v].some /\ Qualifies(Model, v, skip_lb, skip_ub, abs_tol, rel_tol)}

\* "bounds [0, 10], value 9.9999, abs_tol = rel_tol = 1e-4": T = 1e-3 and the
\* variable is included; next to it a variable at 9.9985 that is not, but is
\* with abs_tol = 2e-3.
Wit_C15_WithinRelativeTolerance ==
    /\ BlockVar(2) \in WalkVars(Model)
    /\ lb[BlockVar(2)] = Some(0) /\ ub[BlockVar(2)] = Some(100000)
    /\ value[BlockVar(2)] = Some(99999)
    /\ EffectiveTolerance(Model, BlockVar(2), 1, 1) = 10 * RelTolUnit
    /\ BlockVar(2) \in variables_near_bounds_set(root, None, None, FALSE, FALSE, 1, 1).ret
    /\ value[BlockVar(1)] = Some(99985)
    /\ BlockVar(1) \notin variables_near_bounds_set(root, None, None, FALSE, FALSE, 1, 1).ret
    /\ BlockVar(1) \in variables_near_bounds_set(root, None, None, FALSE, FALSE, 20, 1).ret

\* C16: the near-bound query never raises; a variable without value is never
\* yielded, whatever its bounds and the tolerances; and what is yielded is
\* what the same loop yields over the walk without the valueless variables.
Thm_C16_NoValueIsExcluded ==
    \A skip_lb \in BOOLEAN, skip_ub \in BOOLEAN, abs_tol \in AbsTols, rel_tol \in RelTols :
        LET g == variables_near_bounds_generator(root, None, None, skip_lb, skip_ub,
                                                 abs_tol, rel_tol)
            walk == _iter_indexed_block_data_objects(root, "Var", "True", TRUE)
            valued == SelectSeq(walk, LAMBDA v : value[v].some)
        IN /\ g.raised = "none"
           /\ \A i \in 1..Len(g.ret) : value[g.ret[i]].some
           /\ g.ret = NearBoundsLoop(Model, valued, skip_lb, skip_ub, abs_tol, rel_tol, <<>>).ret

\* A walked variable with both bounds and no value, next to a variable that
\* is near its upper bound.
Wit_C16_BoundsButNoValue ==
    /\ \E v \in WalkVars(Model) : ~value[v].some /\ lb[v].some /\ ub[v].some
    /\ variables_near_bounds_generator(root, None, None, FALSE, FALSE, 1, 1).ret # <<>>

\* C17: with the deprecated tol (or relative) given, a deprecation warning is
\* logged for it and the query returns; with tol given the result is that of
\* the query with abs_tol = rel_tol = tol, whatever abs_tol and rel_tol were
\* passed; relative changes nothing else.
Thm_C17_DeprecatedTol ==
    \A tol \in DeprecatedTols, abs_tol \in AbsTols, rel_tol \in RelTols :
        LET a == IF tol.some THEN tol.val ELSE abs_tol
            r == IF tol.some THEN tol.val ELSE rel_tol
            n == number_variables_near_bounds(root, tol, abs_tol, rel_tol)
        IN /\ n.raised = "none"
           /\ tol.some <=> n.warnings = <<"tol">>
           /\ n.ret = Cardinality(
                  variables_near_bounds_set(root, None, None, FALSE, FALSE, a, r).ret)
           /\ \A relative \in {None, Some(1)}, skip_lb \in BOOLEAN, skip_ub \in BOOLEAN :
                 LET s == variables_near_bounds_set(root, tol, relative, skip_lb, skip_ub,
                                                    abs_tol, rel_tol)
                     plain == variables_near_bounds_set(root, None, None, skip_lb, skip_ub,
                                                        a, r)
                 IN /\ s.raised = "none"
                    /\ tol.some <=> "tol" \in Range(s.warnings)
                    /\ relative.some <=> "relative" \in Range(s.warnings)
                    /\ plain.warnings = <<>>
                    /\ s.ret = plain.ret

\* tol = 1e-4 passed together with abs_tol = 2e-3 and rel_tol = 0 gives
\* another result than abs_tol = 2e-3 and rel_tol = 0 alone.
Wit_C17_TolOverrides ==
    /\ variables_near_bounds_set(root, Some(1), None, FALSE, FALSE, 20, 0).ret
          # variables_near_bounds_set(root, None, None, FALSE, FALSE, 20, 0).ret
    /\ variables_near_bounds_set(root, Some(1), None, FALSE, FALSE, 20, 0).ret
          # variables_near_bounds_set(root, None, None, FALSE, FALSE, 1, 0).ret
    /\ variables_near_bounds_set(root, Some(1), None, FALSE, FALSE, 20, 0).warnings = <<"tol">>

\* C18: active_variables_in_deactivated_blocks_set is the set of the
\* variables in the body of an activated constraint whose owning block is not
\* an activated block; so every member is in the body of an activated
\* constraint, also next to activated grey boxes.
Claim_C18_StrandedVariables ==
    LET inbody == UNION {cons[c].body : c \in ActivatedConstraints(Model)}
        stranded == active_variables_in_deactivated_blocks_set(root)
    IN /\ stranded = {v \in inbody :
                         ~(parent_block(v).ctype = "Block"
                           /\ parent_block(v).id \in activated_blocks_set(root))}
       /\ stranded \subseteq inbody


\* The writes of a report that carry the given text.
Written(w, text) == {i \in 1..Len(w) : w[i][1] = text}

\* The numbers of the one write that carries the given text.
Numbers(w, text) == Tail(w[CHOOSE i \in Written(w, text) : TRUE])

GreyBoxTexts ==
    {"No. Activated GreyBox Blocks", "No. GreyBox Variables",
     "No. Fixed GreyBox Variables", "No. GreyBox Equalities"}

\* C19: report_statistics writes every number as the corresponding query
\* returns it for the same model: the 'Degrees of Freedom' line carries
\* degrees_of_freedom(m), every other line the counts of its queries, and
\* the grey-box sub-section (activated grey-box blocks, grey-box variables,
\* fixed grey-box variables, grey-box equalities) is written exactly when at
\* least one grey-box node is activated.
Thm_C19_ReportCarriesQueries ==
    LET w == report_statistics(root).written
        gbv == greybox_variables(root)
    IN /\ Numbers(w, "Degrees of Freedom") = <<degrees_of_freedom(root)>>
       /\ Numbers(w, "Total No. Variables") = <<number_variables(root)>>
       /\ Numbers(w, "No. Fixed Variables") = <<number_fixed_variables(root)>>
       /\ Numbers(w, "No. Unused Variables")
            = <<Cardinality(unused_variables_set(root)),
                Cardinality(fixed_unused_variables_set(root))>>
       /\ Numbers(w, "No. Variables only in Inequalities")
            = <<Cardinality(variables_only_in_inequalities(root)),
                Cardinality(fixed_variables_only_in_inequalities(root))>>
       /\ Numbers(w, "Total No. Constraints") = <<number_total_constraints(root)>>
       /\ Numbers(w, "No. Equality Constraints")
            = <<number_total_equalities(root), number_deactivated_equalities(root)>>
       /\ Numbers(w, "No. Inequality Constraints")
            = <<number_total_inequalities(root), number_deactivated_inequalities(root)>>
       /\ Numbers(w, "No. Objectives")
            = <<number_total_objectives(root), number_deactivated_objectives(root)>>
       /\ Numbers(w, "No. Blocks")
            = <<number_total_blocks(root), number_deactivated_blocks(root)>>
       /\ Numbers(w, "No. Expressions") = <<Cardinality(expressions_set(root))>>
       /\ \A t \in GreyBoxTexts :
            Cardinality(Written(w, t))
              = IF activated_greybox_block_set(root) # {} THEN 1 ELSE 0
       /\ activated_greybox_block_set(root) # {} =>
            /\ Numbers(w, "No. Activated GreyBox Blocks")
                 = <<Cardinality(activated_greybox_block_set(root))>>
            /\ Numbers(w, "No. GreyBox Variables") = <<Cardinality(gbv)>>
            /\ Numbers(w, "No. Fixed GreyBox Variables")
                 = <<Cardinality({v \in gbv : vfixed[v]})>>
            /\ Numbers(w, "No. GreyBox Equalities")
                 = <<number_activated_greybox_equalities(root)>>

\* A report with the sub-section, of a model with a fixed grey-box variable
\* and a non-zero number of degrees of freedom.
Wit_C19_GreyBoxSectionWritten ==
    LET w == report_statistics(root).written
    IN /\ Written(w, "No. Fixed GreyBox Variables") # {}
       /\ Numbers(w, "No. Fixed GreyBox Variables")[1] > 0
       /\ Numbers(w, "Degrees of Freedom")[1] # 0


\* The texts of the lines every report carries.
ReportTexts ==
    {"Model Statistics", "Degrees of Freedom", "Total No. Variables", "No. Fixed Variables",
     "No. Unused Variables", "No. Variables only in Inequalities", "Total No. Constraints",
     "No. Equality Constraints", "No. Inequality Constraints", "No. Objectives",
     "No. Blocks", "No. Expressions"}

Claim_C22_CountsAddUp ==
    /\ number_total_constraints(root)
          = number_activated_constraints(root) + number_deactivated_constraints(root)
    /\ number_total_equalities(root)
          = number_activated_equalities(root) + number_deactivated_equalities(root)

\* C24: an activated constraint or objective is active and so is every block
\* from the root down to its owner, the root included; the activated
\* constraints are exactly the constraints of the activated-mode walk that
\* large_residuals_set, variables_in_activated_constraints_set and the
\* activated equality and inequality generators iterate.
Claim_C24_ActivatedOnActivePath ==
    /\ \A c \in activated_constraints_set(root) :
          cons[c].active /\ OnActivePath(Model, cons[c].owner)
    /\ \A o \in activated_objectives_set(root) :
          objs[o].active /\ OnActivePath(Model, objs[o].owner)
    /\ activated_constraints_set(root)
          = Range(_iter_indexed_block_data_objects(root, "Constraint", "True", TRUE))

\* C25: the total equalities and the total inequalities are disjoint and
\* together are the total constraints, a constraint with two different bounds
\* included, so the equality and the inequality count add up to the
\* constraint count.
Claim_C25_EqualitiesAndInequalities ==
    /\ total_equalities_set(root) \cap total_inequalities_set(root) = {}
    /\ total_equalities_set(root) \cup total_inequalities_set(root)
          = total_constraints_set(root)
    /\ number_total_equalities(root) + number_total_inequalities(root)
          = number_total_constraints(root)


\* C26: for the same model and tol the two output modes of
\* large_residuals_set agree: both raise or both return, the keys of the
\* dict are the members of the set, a key maps to None iff evaluating that
\* constraint raised, and otherwise to a number strictly greater than tol.
Thm_C26_OutputModesAgree ==
    \A tol \in Tols :
        LET s == large_residuals_set(root, tol, FALSE)
            d == large_residuals_set(root, tol, TRUE)
        IN /\ s.raised = d.raised
           /\ s.raised = "none" =>
                 /\ DOMAIN d.ret = s.ret
                 /\ \A c \in DOMAIN d.ret :
                       IF Faults(Model, c)
                       THEN d.ret[c] = None
                       ELSE d.ret[c].some /\ d.ret[c].val > tol

\* A dict with a key that maps to None and a key that maps to a number.
Wit_C26_NoneAndNumber ==
    LET d == large_residuals_set(root, 1, TRUE)
    IN /\ d.raised = "none"
       /\ \E c \in DOMAIN d.ret : d.ret[c] = None
       /\ \E c \in DOMAIN d.ret : d.ret[c].some
       /\ large_residuals_set(root, 1, FALSE).ret = DOMAIN d.ret

\* Block b is a deactivated sub-block of the root or lies beneath one.
RECURSIVE UnderDeactivated(_, _)
UnderDeactivated(m, b) == b # 0 /\ (~m.bactive[b] \/ UnderDeactivated(m, m.parent[b]))

\* C28: a constraint or objective owned by a deactivated sub-block, or by a
\* block beneath one, is in none of the total, activated and deactivated
\* sets and is not counted by number_total_constraints or
\* number_deactivated_constraints, whatever its own active flag; the blocks
\* themselves are in total_blocks_set and deactivated_blocks_set.
Thm_C28_HiddenComponents ==
    LET hidden == {c \in Cons : UnderDeactivated(Model, cons[c].owner)}
        \* what is counted: the constraints of the root and of the blocks
        \* reached from it through active blocks only
        seen == {c \in Cons : cons[c].owner = 0 \/ OnActivePath(Model, cons[c].owner)}
    IN /\ hidden \cap seen = {}
       /\ \A c \in hidden :
             c \notin total_constraints_set(root) \cup activated_constraints_set(root)
                      \cup deactivated_constraints_set(root)
       /\ \A o \in Objs :
             UnderDeactivated(Model, objs[o].owner) =>
                 o \notin total_objectives_set(root) \cup activated_objectives_set(root)
                          \cup deactivated_objectives_set(root)
       /\ number_total_constraints(root)
             = Cardinality(seen) + number_activated_greybox_equalities(root)
       /\ number_deactivated_constraints(root)
             = Cardinality({c \in seen : ~cons[c].active})
               + number_deactivated_greybox_equalities(root)
       /\ \A b \in SubBlocks :
             UnderDeactivated(Model, b) =>
                 b \in total_blocks_set(root) /\ b \in deactivated_blocks_set(root)

\* An active constraint and a deactivated one on blocks hidden by a
\* deactivated sub-block, one of them on an active block beneath it.
Wit_C28_BeneathDeactivated ==
    /\ bactive[0]
    /\ \E c \in Cons : /\ cons[c].active
                       /\ bactive[cons[c].owner]
                       /\ UnderDeactivated(Model, cons[c].owner)
                       /\ c \notin total_constraints_set(root)
    /\ \E b \in SubBlocks : bactive[b] /\ b \in deactivated_blocks_set(root)

\* C29: the activated equality count plus the activated inequality count
\* never exceeds the activated constraint count, also with activated grey
\* boxes in the model.
Claim_C29_ActivatedCounts ==
    number_activated_equalities(root) + number_activated_inequalities(root)
        <= number_activated_constraints(root)

\* C30: large_residuals_set returns less as the tolerance grows and never a
\* constraint that is not activated: for tol1 <= tol2 the result for tol2 is
\* within the result for tol1, which is within activated_constraints_set; a
\* constraint whose evaluation raises is in the result for every tol.
Claim_C30_MonotoneInTolerance ==
    \A tol1 \in Tols, tol2 \in Tols :
        LET s1 == large_residuals_set(root, tol1, FALSE)
            s2 == large_residuals_set(root, tol2, FALSE)
        IN /\ (tol1 <= tol2 /\ s1.raised = "none" /\ s2.raised = "none") =>
                 /\ s2.ret \subseteq s1.ret
                 /\ s1.ret \subseteq activated_constraints_set(root)
           /\ \A c \in ActivatedConstraints(Model) :
                 Faults(Model, c) => s1.raised = "none" /\ c \in s1.ret


\* Element e of the indexed block, used as the root.
Element(e) == [m |-> Model, id |-> e]

\* C27: asked of an indexed block, every set-valued variable and constraint
\* query returns the union of what it returns for the elements used as
\* roots one by one, and total_blocks_set and number_total_blocks count the
\* indexed block itself once.
Thm_C27_IndexedRoot ==
    LET F == indexed_block
        E == Range(F.values)
    IN /\ variables_set(F) = UNION {variables_set(Element(e)) : e \in E}
       /\ total_constraints_set(F) = UNION {total_constraints_set(Element(e)) : e \in E}
       /\ activated_constraints_set(F)
             = UNION {activated_constraints_set(Element(e)) : e \in E}
       /\ deactivated_constraints_set(F)
             = UNION {deactivated_constraints_set(Element(e)) : e \in E}
       /\ total_equalities_set(F) = UNION {total_equalities_set(Element(e)) : e \in E}
       /\ activated_equalities_set(F)
             = UNION {activated_equalities_set(Element(e)) : e \in E}
       /\ deactivated_equalities_set(F)
             = UNION {deactivated_equalities_set(Element(e)) : e \in E}
       /\ total_inequalities_set(F) = UNION {total_inequalities_set(Element(e)) : e \in E}
       /\ activated_inequalities_set(F)
             = UNION {activated_inequalities_set(Element(e)) : e \in E}
       /\ deactivated_inequalities_set(F)
             = UNION {deactivated_inequalities_set(Element(e)) : e \in E}
       /\ variables_in_activated_constraints_set(F)
             = UNION {variables_in_activated_constraints_set(Element(e)) : e \in E}
       /\ \A tol \in Tols :
             /\ large_residuals_set(F, tol, FALSE).raised = "none"
                   <=> \A e \in E : large_residuals_set(Element(e), tol, FALSE).raised = "none"
             /\ large_residuals_set(F, tol, FALSE).raised = "none" =>
                   large_residuals_set(F, tol, FALSE).ret
                      = UNION {large_residuals_set(Element(e), tol, FALSE).ret : e \in E}
       /\ F.id \in total_blocks_set(F)
       /\ total_blocks_set(F) \ {F.id}
             = UNION {total_blocks_set(Element(e)) \ {e} : e \in E}
       /\ number_total_blocks(F) = Cardinality(total_blocks_set(F))

\* An indexed block of two elements, each with a constraint and a variable
\* of its own, one of them with a block beneath it or a grey box.
Wit_C27_TwoElements ==
    LET F == indexed_block
    IN /\ Cardinality(Range(F.values)) > 1
       /\ \A e \in Range(F.values) :
             /\ total_constraints_set(Element(e)) # {}
             /\ total_constraints_set(Element(e)) # total_constraints_set(F)
             /\ variables_set(Element(e)) # variables_set(F)
       /\ \E e \in Range(F.values) : greybox_variables(Element(e)) # {}
       /\ large_residuals_set(F, -1, FALSE).ret = Cons


\* What query q returns when it is the only one to run, as one call.
Alone(q, block) ==
    CASE q = "activated_constraints_set" ->
            [raised |-> "none", ret |-> activated_constraints_set(block)]
      [] q = "large_residuals_set" -> large_residuals_set(block, 1, FALSE)
      [] q = "variables_near_bounds_set" ->
            LET r == variables_near_bounds_set(block, None, None, FALSE, FALSE, 1, 1)
            IN [raised |-> r.raised, ret |-> r.ret]

\* C21: no step of a query changes the model (active flags, fixed flags,
\* values, bounds, tree), and a query asked again of the unchanged model
\* returns the same result: nothing is carried from one call to the next.
Thm_C21_QueriesAreReadOnly ==
    [][/\ calls' # calls =>
             UNCHANGED <<parent, bactive, cons, objs, gbox, vfixed, refs, bodyval, value, lb, ub>>
       /\ \A p1 \in Procs, p2 \in Procs :
             (/\ calls'[p1].st = "returned"
              /\ calls'[p2].st = "returned"
              /\ calls'[p1].q = calls'[p2].q
              /\ calls'[p1].snap = calls'[p2].snap)
             => calls'[p1].loop = calls'[p2].loop]_vars

\* The same query asked twice of the same edited model, one call after the
\* other, with a result that is not empty.
Wit_C21_AskedTwice ==
    /\ edits > 0
    /\ \A p \in Procs :
          /\ calls[p].st = "returned"
          /\ calls[p].q = "large_residuals_set"
          /\ ~calls[p].mixed
          /\ calls[p].snap = Model
          /\ calls[p].loop.raised = "none"
          /\ calls[p].loop.ret # {}

\* C23: queries that run at the same time, their steps interleaved in any
\* order while nobody edits the model, each return what they return when run
\* alone, and the model is as it was when they were called.
Thm_C23_ConcurrentQueries ==
    [][\A p \in Procs :
          calls'[p] # calls[p] =>
             /\ calls'[p].snap = Model'
             /\ calls'[p].st = "returned" =>
                   calls'[p].loop = Alone(calls'[p].q, root')]_vars

\* A query that returned a result after taking steps while another caller
\* was in the middle of its own walk, and still is.
Wit_C23_Interleaved ==
    /\ calls[1].st = "returned"
    /\ calls[1].mixed
    /\ calls[1].q = "large_residuals_set"
    /\ calls[1].loop.raised = "none"
    /\ calls[1].loop.ret # {}
    /\ calls[2].st = "running"
    /\ calls[2].mixed
    /\ calls[2].pos > 1
    /\ calls[2].q = "variables_near_bounds_set"
    /\ calls[2].loop.ret # <<>>

====
